---- MODULE Spec2Model ----
(***************************************************************************)
(* Stale-content selection of ContentRemover (src/content_remover.py):     *)
(* clean_stale_content -> get_stale_content -> _get_stale_content ->       *)
(* _remove_watchlisted / _remove_collections, run against a Plex catalog.  *)
(* Python lists are sequences of item keys; plexapi objects compare by     *)
(* key, so an item is its key.                                             *)
(***************************************************************************)
EXTENDS Integers, Sequences, FiniteSets, TLC

\* ---------------------------------------------------------------- bounds
MaxItems == 3
MaxWatch == 1

\* ------------------------------------------------------- catalog fixture
Sections == {"movies", "tv"}
SectionOrders == {<<"movies", "tv">>, <<"tv", "movies">>}
Items == 1..MaxItems
\* guids are opaque: the first movie has g1, and the show shares it (a
\* watchlist entry is catalog-wide, not section-scoped)
Guids == {"g1", "g2"}
Names == {"Favorites", "Ghosts"}
StaleDayChoices == {0, 1}
KeepChoices == {<<>>, <<"Favorites">>, <<"Favorites", "Ghosts">>}

\* the library section an item lives in: the last item is a show, the rest movies
section_of(i) == IF i = MaxItems THEN "tv" ELSE "movies"
\* addedAt of an item, as a day number; today is day 2
added_at(i) == i % 2
today == 2

SectionItems(s) == {i \in Items : section_of(i) = s}

\* ------------------------------------------------------------ list helpers
SetOf(list) == {list[k] : k \in 1..Len(list)}

RECURSIVE SortedSeq(_)
SortedSeq(S) ==
    IF S = {} THEN <<>>
    ELSE LET m == CHOOSE x \in S : \A y \in S : x <= y
         IN <<m>> \o SortedSeq(S \ {m})

\* list.remove(x): drops the first occurrence of x
RECURSIVE list_remove(_, _)
list_remove(list, x) ==
    IF list = <<>> THEN <<>>
    ELSE IF Head(list) = x THEN Tail(list)
    ELSE <<Head(list)>> \o list_remove(Tail(list), x)

\* the sorted sequences over the subsets of S
SubSeqs(S) == {SortedSeq(T) : T \in SUBSET S}

\* the watchlists of at most n entries
WatchLists(n) == UNION {[1..k -> Guids] : k \in 0..n}

\* what lib_section.collection(title=...) can yield in section s for a title:
\* no collection, or one holding some of the section's items (possibly none)
NotFound == [found |-> FALSE, items |-> <<>>]
CollectionChoices(s, name) ==
    {NotFound} \cup
    {[found |-> TRUE, items |-> q] :
        q \in IF name = "Ghosts"
                  THEN {<<>>, SortedSeq(SectionItems(s))}
                  ELSE SubSeqs(SectionItems(s))}

\* the collections of section s, for the titles its keep_collections names
\* (no other title is ever looked up)
CollectionsOf(s, names) ==
    [Favorites : IF "Favorites" \in SetOf(names)
                     THEN CollectionChoices(s, "Favorites") ELSE {NotFound},
     Ghosts : IF "Ghosts" \in SetOf(names)
                  THEN CollectionChoices(s, "Ghosts") ELSE {NotFound}]

VARIABLES
    config,       \* the parsed config.ini: dry_run, sections, per-section options
    guid,         \* catalog: item -> catalog-wide guid
    collections,  \* catalog: section -> title -> collection
    watchlist,    \* account: the guids on the watchlist, in order
    pc,           \* position in clean_stale_content
    idx,          \* index of the section the loop of get_stale_content is at
    cur,          \* the list stale_content of _get_stale_content
    stale_content,\* the dict stale_content of get_stale_content
    returned,     \* what get_stale_content returned to clean_stale_content
    reported,     \* the sections and lists logged at INFO
    deleted,      \* the items item.delete() was invoked on, in order
    wl_reads,     \* sections during whose processing user.watchlist() was called
    coll_reads,   \* <<section, title>> pairs looked up with lib_section.collection
    wl_before,    \* contents of the list passed to _remove_watchlisted, at the call
    wl_after,     \* contents of that same list object when the call returned
    err           \* the exception that ended the run

vars == <<config, guid, collections, watchlist, pc, idx, cur, stale_content,
          returned, reported, deleted, wl_reads, coll_reads, wl_before,
          wl_after, err>>

EmptyDict == [s \in {} |-> <<>>]
NoError == [raised |-> FALSE, section |-> "", name |-> ""]
NoReturn == [done |-> FALSE, value |-> EmptyDict]

\* ------------------------------------------------------------ the catalog
\* lib_section.search(filters={"addedAt<<": thresh_date})
search_added_before(s, thresh) ==
    SortedSeq({i \in SectionItems(s) : added_at(i) < thresh})

\* lib_section.search(guid=...)
search_guid(s, g) == SortedSeq({i \in SectionItems(s) : guid[i] = g})

\* the raw age-based stale list of a section
raw_stale(s) == search_added_before(s, today - config.stale_days[s])

\* ------------------------------------------------- _remove_watchlisted
\* (variant) only the first hit of a search result is removed
remove_results_first_only(list, result) ==
    IF result = <<>> THEN list
    ELSE IF Head(result) \in SetOf(list)
             THEN list_remove(list, Head(result))
             ELSE list

\* the loop over one search result: every hit still in the list is removed
RECURSIVE remove_results(_, _)
remove_results(list, result) ==
    IF result = <<>> THEN list
    ELSE remove_results(
             IF Head(result) \in SetOf(list)
                 THEN list_remove(list, Head(result))
                 ELSE list,
             Tail(result))

\* the loop over the watchlist entries
RECURSIVE remove_entries(_, _, _)
remove_entries(list, wl, s) ==
    IF wl = <<>> THEN list
    ELSE LET result == search_guid(s, Head(wl))
         IN remove_entries(
                IF Len(result) = 0 THEN list ELSE remove_results(list, result),
                Tail(wl), s)

\* (variant) the removal works on a copy and leaves the caller's list alone
remove_watchlisted_on_copy(wl, list, s) ==
    [arg |-> list, ret |-> remove_entries(list, wl, s)]

\* arg: the contents of the list object passed in, once the call has returned;
\* ret: the contents of the list returned. The code removes from the list it
\* was given and returns that same list.
remove_watchlisted(wl, list, s) ==
    LET out == remove_entries(list, wl, s)
    IN [arg |-> out, ret |-> out]

\* ------------------------------------------------- _remove_collections
\* "not coll": a missing collection, and one whose len() is 0
not_coll(coll) == ~coll.found \/ Len(coll.items) = 0

\* "if item not in in_collections: in_collections.append(item)"
RECURSIVE append_new(_, _)
append_new(acc, items) ==
    IF items = <<>> THEN acc
    ELSE append_new(
             IF Head(items) \in SetOf(acc) THEN acc ELSE Append(acc, Head(items)),
             Tail(items))

\* (variant) a title with no collection is logged and skipped
RECURSIVE gather_skip_missing(_, _, _, _)
gather_skip_missing(names, s, acc, looked) ==
    IF names = <<>>
        THEN [raised |-> FALSE, name |-> "", items |-> acc, looked |-> looked]
    ELSE LET coll == collections[s][Head(names)]
         IN gather_skip_missing(
                Tail(names), s,
                IF ~coll.found \/ Len(coll.items) = 0
                    THEN acc ELSE append_new(acc, coll.items),
                looked \cup {Head(names)})

\* the loop over the titles to keep; looked: the titles looked up so far
RECURSIVE gather(_, _, _, _)
gather(names, s, acc, looked) ==
    IF names = <<>>
        THEN [raised |-> FALSE, name |-> "", items |-> acc, looked |-> looked]
    ELSE LET coll == collections[s][Head(names)]
         IN IF not_coll(coll)
                THEN [raised |-> TRUE, name |-> Head(names), items |-> acc,
                      looked |-> looked \cup {Head(names)}]
                ELSE gather(Tail(names), s, append_new(acc, coll.items),
                            looked \cup {Head(names)})

\* (variant) the two lists swapped in the final loop
not_in_collections_swapped(list, in_collections) ==
    SelectSeq(in_collections, LAMBDA i : i \notin SetOf(list))

\* (variant) the membership test of the final loop inverted
only_in_collections(list, in_collections) ==
    SelectSeq(list, LAMBDA i : i \in SetOf(in_collections))

\* the final loop: the stale items that are in none of the collections
not_in_collections(list, in_collections) ==
    SelectSeq(list, LAMBDA i : i \notin SetOf(in_collections))

remove_collections(list, names, s) ==
    LET g == gather(names, s, <<>>, {})
    IN [raised |-> g.raised, name |-> g.name, looked |-> g.looked,
        ret |-> IF g.raised THEN <<>> ELSE not_in_collections(list, g.items)]

\* ------------------------------------------------- _get_stale_content
\* (variant) keep_watchlisted is not consulted
watch_enabled_always(s, filtered) == filtered

watch_enabled(s, filtered) == config.keep_watchlisted[s] /\ filtered
coll_enabled(names, filtered) == Len(names) > 0 /\ filtered

\* one whole call for section s with keep_collections = names
get_stale_content_of(s, names, filtered) ==
    LET raw == raw_stale(s)
        w == IF watch_enabled(s, filtered)
                 THEN remove_watchlisted(watchlist, raw, s).ret ELSE raw
    IN IF coll_enabled(names, filtered)
           THEN remove_collections(w, names, s)
           ELSE [raised |-> FALSE, name |-> "", looked |-> {}, ret |-> w]

\* ------------------------------------------------------------------ Init
Init ==
    /\ config \in [dry_run : BOOLEAN,
                   sections : SectionOrders,
                   stale_days : {[s \in Sections |-> d] : d \in StaleDayChoices},
                   keep_watchlisted : [Sections -> BOOLEAN],
                   keep_collections : [Sections -> KeepChoices]]
    /\ guid \in {f \in [Items -> Guids] : f[1] = "g1" /\ f[MaxItems] = "g1"}
    /\ collections \in [movies : CollectionsOf("movies", config.keep_collections["movies"]),
                        tv : CollectionsOf("tv", config.keep_collections["tv"])]
    /\ watchlist \in WatchLists(MaxWatch)
    /\ pc = "loop"
    /\ idx = 1
    /\ cur = <<>>
    /\ stale_content = EmptyDict
    /\ returned = NoReturn
    /\ reported = EmptyDict
    /\ deleted = <<>>
    /\ wl_reads = {}
    /\ coll_reads = {}
    /\ wl_before = <<>>
    /\ wl_after = <<>>
    /\ err = NoError

section == config.sections[idx]

\* ------------------------------------------------------------------ actions
\* _get_stale_content up to the search for items older than the threshold
search_stale ==
    /\ pc = "loop"
    /\ idx <= Len(config.sections)
    /\ cur' = raw_stale(section)
    /\ pc' = "watchlist"
    /\ UNCHANGED <<config, guid, collections, watchlist, idx, stale_content,
                   returned, reported, deleted, wl_reads, coll_reads,
                   wl_before, wl_after, err>>

\* the keep_watchlisted branch
filter_watchlisted ==
    /\ pc = "watchlist"
    /\ IF watch_enabled(section, TRUE)
           THEN LET r == remove_watchlisted(watchlist, cur, section)
                IN /\ cur' = r.ret
                   /\ wl_before' = cur
                   /\ wl_after' = r.arg
                   /\ wl_reads' = wl_reads \cup {section}
           ELSE UNCHANGED <<cur, wl_before, wl_after, wl_reads>>
    /\ pc' = "collections"
    /\ UNCHANGED <<config, guid, collections, watchlist, idx, stale_content,
                   returned, reported, deleted, coll_reads, err>>

\* the keep_collections branch and the return into stale_content[section]
filter_collections ==
    /\ pc = "collections"
    /\ LET r == IF coll_enabled(config.keep_collections[section], TRUE)
                    THEN remove_collections(cur, config.keep_collections[section], section)
                    ELSE [raised |-> FALSE, name |-> "", looked |-> {}, ret |-> cur]
       IN /\ ~r.raised
          /\ coll_reads' = coll_reads \cup {<<section, n>> : n \in r.looked}
          /\ stale_content' = [t \in DOMAIN stale_content \cup {section} |->
                                 IF t = section THEN r.ret ELSE stale_content[t]]
    /\ cur' = <<>>
    /\ idx' = idx + 1
    /\ pc' = "loop"
    /\ UNCHANGED <<config, guid, collections, watchlist, returned, reported,
                   deleted, wl_reads, wl_before, wl_after, err>>

\* (variant) the ValueError is caught per section and the loop goes on
collection_not_found_swallowed ==
    /\ pc = "collections"
    /\ coll_enabled(config.keep_collections[section], TRUE)
    /\ LET r == remove_collections(cur, config.keep_collections[section], section)
       IN /\ r.raised
          /\ coll_reads' = coll_reads \cup {<<section, n>> : n \in r.looked}
    /\ cur' = <<>>
    /\ idx' = idx + 1
    /\ pc' = "loop"
    /\ UNCHANGED <<config, guid, collections, watchlist, stale_content,
                   returned, reported, deleted, wl_reads, wl_before, wl_after,
                   err>>

\* the ValueError of _remove_collections: it unwinds get_stale_content and
\* clean_stale_content, whose locals are lost
raise_collection_not_found ==
    /\ pc = "collections"
    /\ coll_enabled(config.keep_collections[section], TRUE)
    /\ LET r == remove_collections(cur, config.keep_collections[section], section)
       IN /\ r.raised
          /\ coll_reads' = coll_reads \cup {<<section, n>> : n \in r.looked}
          /\ err' = [raised |-> TRUE, section |-> section, name |-> r.name]
    /\ cur' = <<>>
    /\ stale_content' = EmptyDict
    /\ pc' = "error"
    /\ UNCHANGED <<config, guid, collections, watchlist, idx, returned,
                   reported, deleted, wl_reads, wl_before, wl_after>>

\* the end of the loop: get_stale_content returns the dict (DEBUG is off)
return_stale_content ==
    /\ pc = "loop"
    /\ idx > Len(config.sections)
    /\ returned' = [done |-> TRUE, value |-> stale_content]
    /\ pc' = "gate"
    /\ UNCHANGED <<config, guid, collections, watchlist, idx, cur,
                   stale_content, reported, deleted, wl_reads, coll_reads,
                   wl_before, wl_after, err>>

\* the lists of a selection, one after the other in configuration order
RECURSIVE flatten(_, _)
flatten(order, selection) ==
    IF order = <<>> THEN <<>>
    ELSE (IF Head(order) \in DOMAIN selection THEN selection[Head(order)] ELSE <<>>)
         \o flatten(Tail(order), selection)

\* (variant) the selection is deleted before dry_run is looked at
dry_run_report_after_delete ==
    /\ pc = "gate"
    /\ config.dry_run
    /\ deleted' = deleted \o flatten(config.sections, returned.value)
    /\ reported' = returned.value
    /\ pc' = "done"
    /\ UNCHANGED <<config, guid, collections, watchlist, idx, cur,
                   stale_content, returned, wl_reads, coll_reads,
                   wl_before, wl_after, err>>

\* "if self._dry_run": log every section's list at INFO and return
dry_run_report ==
    /\ pc = "gate"
    /\ config.dry_run
    /\ reported' = returned.value
    /\ pc' = "done"
    /\ UNCHANGED <<config, guid, collections, watchlist, idx, cur,
                   stale_content, returned, deleted, wl_reads, coll_reads,
                   wl_before, wl_after, err>>

\* dry_run off: clean_stale_content falls off its end
live_return ==
    /\ pc = "gate"
    /\ ~config.dry_run
    /\ pc' = "done"
    /\ UNCHANGED <<config, guid, collections, watchlist, idx, cur,
                   stale_content, returned, reported, deleted, wl_reads,
                   coll_reads, wl_before, wl_after, err>>

Next ==
    \/ search_stale
    \/ filter_watchlisted
    \/ filter_collections
    \/ raise_collection_not_found
    \/ return_stale_content
    \/ dry_run_report
    \/ live_return

Spec == Init /\ [][Next]_vars

\* ------------------------------------------------------------ properties
\* section s names a title to keep that has no collection in s
NamesMissing(s) ==
    \E k \in 1..Len(config.keep_collections[s]) :
        ~collections[s][config.keep_collections[s][k]].found

\* every title section s names has a collection with at least one member
FullyValid(s) ==
    \A k \in 1..Len(config.keep_collections[s]) :
        LET coll == collections[s][config.keep_collections[s][k]]
        IN coll.found /\ Len(coll.items) > 0

\* the call of _remove_watchlisted for the current section has just returned
JustWatchlisted == pc = "collections" /\ section \in wl_reads

Watchlisted(i) == guid[i] \in SetOf(watchlist)

drop_at(names, k) == SubSeq(names, 1, k - 1) \o SubSeq(names, k + 1, Len(names))

Count(list, x) == Cardinality({k \in 1..Len(list) : list[k] = x})

\* C1: when some configured section names a protected collection that does
\* not exist in it, the run never returns a selection, reports none and
\* deletes nothing, in either order of the sections; once the error is raised
\* the lists already computed for other sections are gone.
AtomicFailure ==
    (\E s \in Sections : NamesMissing(s)) =>
        /\ ~returned.done
        /\ reported = EmptyDict
        /\ deleted = <<>>
        /\ pc \notin {"gate", "done"}
        /\ (pc = "error" => stale_content = EmptyDict)

\* movies is valid and was fully processed first, with a non-empty list, when
\* tv failed on a missing collection
AtomicFailureWitness ==
    /\ pc = "error"
    /\ err.section = "tv"
    /\ ~collections["tv"][err.name].found
    /\ config.sections = <<"movies", "tv">>
    /\ FullyValid("movies")
    /\ ~NamesMissing("movies")
    /\ raw_stale("movies") # <<>>
    /\ ~config.dry_run

\* C2: where _get_stale_content is about to filter by collections,
\* _remove_collections raises for every candidate list and every non-empty
\* list of titles holding a title with no collection in the section; no list
\* is ever recorded for a section that names such a title.
MissingCollectionIsHardStop ==
    /\ pc = "collections" =>
         \A names \in KeepChoices \ {<<>>} :
           \A list \in SubSeqs(SectionItems(section)) :
             (\E k \in 1..Len(names) : ~collections[section][names[k]].found)
                 => remove_collections(list, names, section).raised
    /\ \A s \in DOMAIN stale_content : ~NamesMissing(s)
    /\ \A s \in DOMAIN returned.value : ~NamesMissing(s)

\* the second title is the missing one, after a first that has members
MissingCollectionWitness ==
    /\ pc = "error"
    /\ err.raised
    /\ err.name = "Ghosts"
    /\ ~collections[err.section]["Ghosts"].found
    /\ collections[err.section]["Favorites"].found
    /\ Len(collections[err.section]["Favorites"].items) > 0
    /\ cur = <<>>

\* C3: the list at every stage of a section, the list recorded for it and
\* the list returned for it hold only items of the section's raw stale list.
SubsetProperty ==
    /\ pc \in {"watchlist", "collections"}
           => SetOf(cur) \subseteq SetOf(raw_stale(section))
    /\ \A s \in DOMAIN stale_content :
           SetOf(stale_content[s]) \subseteq SetOf(raw_stale(s))
    /\ \A s \in DOMAIN returned.value :
           SetOf(returned.value[s]) \subseteq SetOf(raw_stale(s))

\* both filters ran for a section and each removed something
SubsetWitness ==
    \E s \in DOMAIN returned.value :
        /\ config.keep_watchlisted[s]
        /\ config.keep_collections[s] # <<>>
        /\ Len(returned.value[s]) < Len(remove_watchlisted(watchlist, raw_stale(s), s).ret)
        /\ Len(remove_watchlisted(watchlist, raw_stale(s), s).ret) < Len(raw_stale(s))

\* C4: with dry_run on, item.delete() is invoked in no reachable state, and
\* a finished run has reported the returned list of every configured section.
DryRunGate ==
    config.dry_run =>
        /\ deleted = <<>>
        /\ (pc = "done" =>
               /\ returned.done
               /\ reported = returned.value
               /\ DOMAIN reported = Sections)

\* a dry run that finished with something to delete
DryRunWitness ==
    /\ config.dry_run
    /\ pc = "done"
    /\ \E s \in DOMAIN reported : reported[s] # <<>>

\* C5: with dry_run off, a finished run has invoked item.delete() exactly
\* once on each item of every section's final list and on no other item.
ApplyDeletesFinalSets ==
    (pc = "done" /\ ~config.dry_run) =>
        /\ \A s \in DOMAIN returned.value : \A i \in SetOf(returned.value[s]) :
               Count(deleted, i) = 1
        /\ \A k \in 1..Len(deleted) :
               \E s \in DOMAIN returned.value : deleted[k] \in SetOf(returned.value[s])

WatchlistProtectsAll ==
    JustWatchlisted =>
        /\ \A i \in SectionItems(section) : Watchlisted(i) => i \notin SetOf(cur)
        /\ \A i \in SetOf(wl_before) : ~Watchlisted(i) => i \in SetOf(cur)

\* one watchlist entry resolved to two candidates, and both are gone
WatchlistMultiMatchWitness ==
    /\ JustWatchlisted
    /\ \E i, j \in SetOf(wl_before) :
           /\ i # j
           /\ guid[i] = guid[j]
           /\ Watchlisted(i)
           /\ i \notin SetOf(cur)
           /\ j \notin SetOf(cur)

\* C8: for a section with no title to keep and keep_watchlisted off, the
\* recorded list is the raw stale list, and neither the watchlist nor any
\* collection of the section was read for it.
EmptyProtectionNoOp ==
    \A s \in DOMAIN stale_content \cup DOMAIN returned.value :
        (config.keep_collections[s] = <<>> /\ ~config.keep_watchlisted[s]) =>
            /\ s \in DOMAIN stale_content => stale_content[s] = raw_stale(s)
            /\ s \in DOMAIN returned.value => returned.value[s] = raw_stale(s)
            /\ s \notin wl_reads
            /\ \A n \in Names : <<s, n>> \notin coll_reads

\* an unprotected section whose raw stale list holds a watchlisted item
EmptyProtectionWitness ==
    \E s \in DOMAIN returned.value :
        /\ config.keep_collections[s] = <<>>
        /\ ~config.keep_watchlisted[s]
        /\ \E i \in SetOf(returned.value[s]) : Watchlisted(i)

\* C9: the list recorded for a section is contained in, and no longer than,
\* the list the same call yields with any one title taken off
\* keep_collections, whenever that call yields a list.
ProtectionMonotone ==
    \A s \in DOMAIN stale_content :
        \A k \in 1..Len(config.keep_collections[s]) :
            LET fewer == get_stale_content_of(s, drop_at(config.keep_collections[s], k), TRUE)
            IN ~fewer.raised =>
                   /\ SetOf(stale_content[s]) \subseteq SetOf(fewer.ret)
                   /\ Len(stale_content[s]) <= Len(fewer.ret)

\* the second title protected an item the first did not
ProtectionMonotoneWitness ==
    \E s \in DOMAIN stale_content :
        /\ Len(config.keep_collections[s]) = 2
        /\ LET fewer == get_stale_content_of(s, drop_at(config.keep_collections[s], 2), TRUE)
           IN /\ ~fewer.raised
              /\ fewer.ret # <<>>
              /\ Len(stale_content[s]) < Len(fewer.ret)
              /\ Len(fewer.ret) < Len(raw_stale(s))

\* C10: the run fails on a title to keep only when the section has no
\* collection of that title; a collection without members does not fail it.
EmptyCollectionIsFound ==
    pc = "error" => ~collections[err.section][err.name].found

====
